---- MODULE Spec2Model ----
(***************************************************************************)
(* MeteoLux integration: the fetch-retry engine of the data update         *)
(* coordinator (coordinator.py) and the daily forecast merge of the        *)
(* weather entity (weather.py).                                            *)
(***************************************************************************)
EXTENDS Integers, Sequences, FiniteSets, TLC

(***************************************************************************)
(* Bounds of the model                                                     *)
(***************************************************************************)
MaxRefreshes == 2
MaxShutdowns == 2
\* calendar dates are 1..MaxDate
MaxDate == 2
\* longest detailed and extended feed of arbitrary entries
MaxDetailedAny == 2
MaxExtendedAny == 1
\* longest detailed and extended feed of consecutive dates
MaxDetailedRun == 6
MaxExtendedRun == 7
\* async_forecast_daily calls on one entity
MaxCalls == 2
\* tenths of a degree a chosen or geocoded point can lie outside the box
MaxOutside == 1
\* numbers in the strings and lists the parsing helpers are called on
MaxNumber == 3
\* longest temperature list
MaxTempLen == 3

(***************************************************************************)
(* Values                                                                  *)
(***************************************************************************)
\* Python None for a numeric attribute
None == -1
\* self._session is None
NoSession == 0

Feeds == {"current", "hourly", "daily"}
\* the feed whose refresh cycle the retry specification runs
RetryFeeds == {"daily"}

CityIds == {None, 490}
Latitudes == {None, 49}
Longitudes == {None, 6}
Languages == {"en", "fr"}

Configs == [city_id : CityIds, latitude : Latitudes, longitude : Longitudes,
            language : Languages]

\* HTTP statuses the server can answer with
Statuses == {200, 201, 299, 400, 404, 429, 499, 500, 503}

(***************************************************************************)
(* The payload of the API.  Numbers of the JSON body are naturals, None    *)
(* where the key is missing or null.                                       *)
(***************************************************************************)
\* Python None, and a missing key, of a string attribute
NoneStr == "None"
\* a key a Forecast dict does not have
Absent == -2
AbsentStr == "Absent"
\* an entry without a "date" key
NoDate == 0
Dates == 1..MaxDate

\* a range string: missing or null ("none"), "" ("empty"), a number such
\* as "12" ("num", a), a range such as "20-30" ("range", a, b), or text
\* that float() rejects ("bad")
RangeStr(k, a, b) == [k |-> k, a |-> a, b |-> b]
NoRange == RangeStr("none", 0, 0)

\* a temperature: missing or null, a number, a list of numbers, or a value
\* of another type
TempVal(k, v) == [k |-> k, v |-> v]
NoTemp == TempVal("none", <<>>)

\* forecast.daily[i], profile p of its values
DetailedDay(d, p) ==
    IF p = 1
    THEN [date |-> d, tmax |-> TempVal("num", <<18>>), tmin |-> TempVal("num", <<10>>),
          rain |-> RangeStr("range", 2, 5), wspeed |-> RangeStr("range", 15, 25),
          wgusts |-> RangeStr("range", 35, 45), wdir |-> "O", uv |-> 3]
    ELSE [date |-> d, tmax |-> TempVal("list", <<16, 20>>), tmin |-> NoTemp,
          rain |-> NoRange, wspeed |-> RangeStr("num", 0, 0),
          wgusts |-> RangeStr("bad", 0, 0), wdir |-> "", uv |-> None]

\* data.forecast[i], profile p of its values
ExtendedDay(d, p) ==
    IF p = 1
    THEN [date |-> d, maxTemp |-> 19, minTemp |-> 11, precipitation |-> 4]
    ELSE [date |-> d, maxTemp |-> 17, minTemp |-> None, precipitation |-> None]

\* forecast.current; present = FALSE when the payload has no such key
NoSnapshot ==
    [present |-> FALSE, icon |-> None, temp |-> NoTemp, felt |-> None,
     wspeed |-> NoRange, wgusts |-> NoRange, wdir |-> "", rain |-> NoRange,
     humidity |-> None, pressure |-> None, clouds |-> None, uv |-> None]
SnapshotA ==
    [present |-> TRUE, icon |-> 3, temp |-> TempVal("num", <<15>>), felt |-> 14,
     wspeed |-> RangeStr("range", 20, 30), wgusts |-> RangeStr("range", 40, 50),
     wdir |-> "SO", rain |-> RangeStr("range", 0, 1),
     humidity |-> 75, pressure |-> 1013, clouds |-> 45, uv |-> 4]
SnapshotB ==
    [present |-> TRUE, icon |-> None, temp |-> NoTemp, felt |-> None,
     wspeed |-> NoRange, wgusts |-> NoRange, wdir |-> "", rain |-> RangeStr("num", 0, 0),
     humidity |-> None, pressure |-> 1000, clouds |-> None, uv |-> None]

\* coordinator.data: None (has = FALSE) or the JSON body
\* (keys = FALSE for the body {})
Payload(c, d, e) == [has |-> TRUE, keys |-> TRUE, current |-> c, daily |-> d, ext |-> e]
NoData == [has |-> FALSE, keys |-> FALSE, current |-> NoSnapshot, daily |-> <<>>, ext |-> <<>>]
EmptyPayload == [has |-> TRUE, keys |-> FALSE, current |-> NoSnapshot, daily |-> <<>>, ext |-> <<>>]
\* if not coordinator.data
\* variant: the guard is left out
Truthy_Always(p) == TRUE
Truthy(p) == p.has /\ p.keys

\* the bodies the server answers a refresh with
Payloads ==
    {Payload(SnapshotA, <<DetailedDay(1, 1)>>, <<ExtendedDay(1, 1), ExtendedDay(2, 1)>>),
     Payload(SnapshotB, <<DetailedDay(2, 2)>>, <<>>)}

\* what one attempt can end in: a response (whose body json() returns or
\* raises on), or an exception raised by session.get
Response(s, j, p) == [type |-> "response", status |-> s, json |-> j, payload |-> p]
Raised(t) == [type |-> t, status |-> 0, json |-> "none", payload |-> NoData]
NoOutcome == Raised("none")
ExceptionTypes == {"ClientError", "TimeoutError", "Exception"}
Is2xx(s) == 200 <= s /\ s <= 299
Outcomes ==
    {Response(s, "none", NoData) : s \in {t \in Statuses : ~Is2xx(t)}}
    \cup {Response(s, "ok", p) : s \in {t \in Statuses : Is2xx(t)}, p \in Payloads}
    \cup {Response(200, t, NoData) : t \in ExceptionTypes}
    \cup {Raised(t) : t \in ExceptionTypes}

\* UpdateFailed instances
UpdateFailed(m, s) == [msg |-> m, status |-> s]
NoError == UpdateFailed("", 0)

\* the outcome of a refresh as its caller sees it
NoResult == [kind |-> "none", payload |-> NoData, err |-> NoError]
Returned(p) == [kind |-> "ok", payload |-> p, err |-> NoError]
Failed(e) == [kind |-> "failed", payload |-> NoData, err |-> e]

(***************************************************************************)
(* coordinator.py                                                          *)
(***************************************************************************)
\* variant: a seventh delay
RETRY_DELAYS_Longer == <<2, 4, 8, 16, 30, 60, 120>>
RETRY_DELAYS == <<2, 4, 8, 16, 30, 60>>

\* range(len(RETRY_DELAYS) + 1)
MaxAttempts == Len(RETRY_DELAYS) + 1

\* if attempt < len(RETRY_DELAYS)
HasAttemptsLeft(a) == a < Len(RETRY_DELAYS)

\* variant: a constant delay
BackoffDelay_Constant(a) == RETRY_DELAYS[1]
\* RETRY_DELAYS[attempt], attempt counted from 0
BackoffDelay(a) == RETRY_DELAYS[a + 1]

\* if response.status != 200
IsNot200(s) == s # 200

\* variant: 400 itself is not taken as a client error
IsClientErrorStatus_Above400(s) == 400 < s /\ s < 500 /\ s # 429
\* variant: 429 is not excepted
IsClientErrorStatus_With429(s) == 400 <= s /\ s < 500
\* if 400 <= response.status < 500 and response.status != 429
IsClientErrorStatus(s) == 400 <= s /\ s < 500 /\ s # 429

\* variant: a session for every refresh
NeedsSession_Always(sess) == TRUE
\* if self._session is None
NeedsSession(sess) == sess = NoSession

\* the query parameters, or NoParams where the code raises "No location"
NoParams == [sel |-> "none", city |-> None, lat |-> None, long |-> None, langcode |-> ""]
\* variant: one coordinate is enough
BuildParams_EitherCoord(c) ==
    IF c.city_id # None
    THEN [sel |-> "city", city |-> c.city_id, lat |-> None, long |-> None,
          langcode |-> c.language]
    ELSE IF c.latitude # None \/ c.longitude # None
    THEN [sel |-> "coords", city |-> None, lat |-> c.latitude, long |-> c.longitude,
          langcode |-> c.language]
    ELSE NoParams
\* variant: the coordinates are sent along with the city id
BuildParams_Both(c) ==
    IF c.city_id # None
    THEN [sel |-> "city", city |-> c.city_id, lat |-> c.latitude, long |-> c.longitude,
          langcode |-> c.language]
    ELSE IF c.latitude # None /\ c.longitude # None
    THEN [sel |-> "coords", city |-> None, lat |-> c.latitude, long |-> c.longitude,
          langcode |-> c.language]
    ELSE NoParams
BuildParams(c) ==
    IF c.city_id # None
    THEN [sel |-> "city", city |-> c.city_id, lat |-> None, long |-> None,
          langcode |-> c.language]
    ELSE IF c.latitude # None /\ c.longitude # None
    THEN [sel |-> "coords", city |-> None, lat |-> c.latitude, long |-> c.longitude,
          langcode |-> c.language]
    ELSE NoParams

\* what the loop body does with the outcome of attempt a:
\*   "return" the payload, "raise" an UpdateFailed, or "sleep" and retry
DoReturn(p) == [act |-> "return", payload |-> p, err |-> NoError, last |-> NoError]
\* variant: an empty payload is returned where the code raises
DoRaise_ReturnEmpty(e, last) == [act |-> "return", payload |-> EmptyPayload, err |-> NoError, last |-> last]
DoRaise(e, last) == [act |-> "raise", payload |-> NoData, err |-> e, last |-> last]
DoSleep(last) == [act |-> "sleep", payload |-> NoData, err |-> NoError, last |-> last]

\* raise last_error inside the try block: UpdateFailed is an Exception, so
\* the except Exception clause catches it and raises "Unexpected error: ..."
RaiseInsideTry(e) == DoRaise(UpdateFailed("Unexpected error", e.status), e)

\* except aiohttp.ClientError / except asyncio.TimeoutError
\* variant: after the last attempt the loop ends and the function returns None
RetryOrRaise_FallThrough(e, a) == IF HasAttemptsLeft(a) THEN DoSleep(e) ELSE DoReturn(NoData)
RetryOrRaise(e, a) == IF HasAttemptsLeft(a) THEN DoSleep(e) ELSE DoRaise(e, e)

\* an exception of type t, raised by session.get or by response.json
\* variant: every exception is retried
OnException_RetryAll(t, a, last) ==
    CASE t = "ClientError" -> RetryOrRaise(UpdateFailed("Error communicating with API", 0), a)
      [] t = "TimeoutError" -> RetryOrRaise(UpdateFailed("Request timeout", 0), a)
      [] OTHER -> RetryOrRaise(UpdateFailed("Unexpected error", 0), a)
OnException(t, a, last) ==
    CASE t = "ClientError" -> RetryOrRaise(UpdateFailed("Error communicating with API", 0), a)
      [] t = "TimeoutError" -> RetryOrRaise(UpdateFailed("Request timeout", 0), a)
      [] OTHER -> DoRaise(UpdateFailed("Unexpected error", 0), last)

\* the body of the async with block
OnResponse(o, a, last) ==
    IF IsNot200(o.status)
    THEN LET e == UpdateFailed("Error fetching data", o.status) IN
         IF IsClientErrorStatus(o.status) THEN RaiseInsideTry(e)
         ELSE IF HasAttemptsLeft(a) THEN DoSleep(e)
         ELSE RaiseInsideTry(e)
    ELSE IF o.json = "ok" THEN DoReturn(o.payload)
    ELSE OnException(o.json, a, last)

Classify(o, a, last) ==
    IF o.type = "response" THEN OnResponse(o, a, last) ELSE OnException(o.type, a, last)

(***************************************************************************)
(* weather.py.  A float is held as the number of its halves (15.5 is 31),  *)
(* None stays None.                                                        *)
(***************************************************************************)
Float(n) == IF n = None THEN None ELSE 2 * n

RECURSIVE SumSeq(_)
SumSeq(q) == IF q = <<>> THEN 0 ELSE Head(q) + SumSeq(Tail(q))

\* parse_wind_speed and parse_precipitation (the same body)
\* variant: the lower end of a range is returned
parse_range_LowerEnd(r) ==
    IF r.k \in {"none", "empty"} \/ (r.k = "num" /\ r.a = 0) THEN 0
    ELSE IF r.k = "range" THEN 2 * r.a
    ELSE IF r.k = "num" THEN 2 * r.a
    ELSE None
\* variant: None for a missing or empty string
parse_range_NoneForEmpty(r) ==
    IF r.k \in {"none", "empty"} THEN None
    ELSE IF r.k = "range" THEN r.a + r.b
    ELSE IF r.k = "num" THEN 2 * r.a
    ELSE None
parse_range(r) ==
    IF r.k \in {"none", "empty"} \/ (r.k = "num" /\ r.a = 0) THEN 0
    ELSE IF r.k = "range" THEN r.a + r.b
    ELSE IF r.k = "num" THEN 2 * r.a
    ELSE None
parse_wind_speed(r) == parse_range(r)
parse_precipitation(r) == parse_range(r)

\* parse_temperature; the mean is held to the half, rounded down; a bool is
\* an int to isinstance (True is 1, False is 0)
parse_temperature(t) ==
    IF t.k = "none" THEN None
    ELSE IF t.k \in {"num", "bool"} THEN 2 * t.v[1]
    ELSE IF t.k = "list" /\ Len(t.v) > 0 THEN (2 * SumSeq(t.v)) \div Len(t.v)
    ELSE None

\* const.py, WIND_DIRECTION_MAP
DirectionCodes == {"N", "NE", "E", "SE", "S", "SO", "O", "NO"}
WIND_DIRECTION_MAP(lang, d) ==
    CASE lang = "fr" -> d
      [] lang = "en" ->
           (CASE d = "SO" -> "SW" [] d = "O" -> "W" [] d = "NO" -> "NW" [] OTHER -> d)
      [] OTHER ->
           (CASE d = "NE" -> "NO" [] d = "E" -> "O" [] d = "SE" -> "SO"
              [] d = "SO" -> "SW" [] d = "O" -> "W" [] d = "NO" -> "NW" [] OTHER -> d)
SupportedLanguages == {"en", "fr", "de", "lb"}

\* MeteoLuxWeather._translate_wind_direction
\* variant: no table for a language that is not supported
translate_wind_direction_NoFallback(lang, d) ==
    IF d = "" \/ d = NoneStr THEN NoneStr
    ELSE IF d \notin DirectionCodes \/ lang \notin SupportedLanguages THEN d
    ELSE WIND_DIRECTION_MAP(lang, d)
translate_wind_direction(lang, d) ==
    IF d = "" \/ d = NoneStr THEN NoneStr
    ELSE IF d \notin DirectionCodes THEN d
    ELSE WIND_DIRECTION_MAP(IF lang \in SupportedLanguages THEN lang ELSE "en", d)

\* const.py, CONDITION_MAP.get(icon_id, None)
CONDITION_MAP(i) ==
    CASE i = 1 -> "sunny" [] i = 2 -> "clear-night" [] i = 3 -> "partlycloudy"
      [] i = 5 -> "cloudy" [] i = 7 -> "fog" [] OTHER -> NoneStr

\* the properties of the entity that read coordinator.data (the current feed)
HasCurrent(cur) == Truthy(cur) /\ cur.current.present
condition(cur) ==
    IF ~HasCurrent(cur) \/ cur.current.icon = None THEN NoneStr
    ELSE CONDITION_MAP(cur.current.icon)
native_temperature(cur) ==
    IF ~HasCurrent(cur) THEN None ELSE parse_temperature(cur.current.temp)
native_apparent_temperature(cur) ==
    IF ~HasCurrent(cur) THEN None ELSE Float(cur.current.felt)
wind_bearing(cur, lang) ==
    IF ~HasCurrent(cur) THEN NoneStr ELSE translate_wind_direction(lang, cur.current.wdir)

\* the other properties of the entity that read coordinator.data
native_wind_speed(cur) ==
    IF ~HasCurrent(cur) THEN None ELSE parse_wind_speed(cur.current.wspeed)
humidity(cur) == IF ~HasCurrent(cur) THEN None ELSE Float(cur.current.humidity)
native_pressure(cur) == IF ~HasCurrent(cur) THEN None ELSE Float(cur.current.pressure)
uv_index(cur) == IF ~HasCurrent(cur) THEN None ELSE Float(cur.current.uv)
cloud_coverage(cur) == IF ~HasCurrent(cur) THEN None ELSE Float(cur.current.clouds)

\* a value an entity reports: None, a number or a string
NoneVal == [none |-> TRUE, num |-> 0, str |-> ""]
NumVal(n) == IF n = None THEN NoneVal ELSE [none |-> FALSE, num |-> n, str |-> ""]
StrVal(t) == IF t = NoneStr THEN NoneVal ELSE [none |-> FALSE, num |-> 0, str |-> t]

\* the state properties of MeteoLuxWeather
WeatherAccessors ==
    {"condition", "native_temperature", "native_apparent_temperature",
     "native_wind_speed", "wind_bearing", "humidity", "native_pressure",
     "uv_index", "cloud_coverage"}
weather_property(a, cur, lang) ==
    CASE a = "condition" -> StrVal(condition(cur))
      [] a = "native_temperature" -> NumVal(native_temperature(cur))
      [] a = "native_apparent_temperature" -> NumVal(native_apparent_temperature(cur))
      [] a = "native_wind_speed" -> NumVal(native_wind_speed(cur))
      [] a = "wind_bearing" -> StrVal(wind_bearing(cur, lang))
      [] a = "humidity" -> NumVal(humidity(cur))
      [] a = "native_pressure" -> NumVal(native_pressure(cur))
      [] a = "uv_index" -> NumVal(uv_index(cur))
      [] OTHER -> NumVal(cloud_coverage(cur))

\* Python's x or y for floats and for strings
\* variant: only None gives way to y, 0.0 does not
OrNum_NoneOnly(x, y) == IF x = None THEN y ELSE x
OrNum(x, y) == IF x = None \/ x = 0 THEN y ELSE x
OrStr(x, y) == IF x = NoneStr \/ x = "" THEN y ELSE x

\* Forecast(...) built from the current weather for today
TodayForecast(cur, lang, today) ==
    [datetime |-> today,
     condition |-> condition(cur),
     native_temperature |-> native_temperature(cur),
     native_apparent_temperature |-> native_apparent_temperature(cur),
     native_templow |-> None,
     native_precipitation |-> parse_precipitation(cur.current.rain),
     native_wind_speed |-> parse_wind_speed(cur.current.wspeed),
     native_wind_gust_speed |-> parse_wind_speed(cur.current.wgusts),
     wind_bearing |-> wind_bearing(cur, lang),
     humidity |-> Float(cur.current.humidity),
     native_pressure |-> Float(cur.current.pressure),
     cloud_coverage |-> Float(cur.current.clouds),
     uv_index |-> Float(cur.current.uv)]

\* forecast_data of one detailed day, before the merge with current weather
DetailedBase(day, lang) ==
    [datetime |-> day.date,
     condition |-> AbsentStr,
     native_temperature |-> parse_temperature(day.tmax),
     native_apparent_temperature |-> Absent,
     native_templow |-> parse_temperature(day.tmin),
     native_precipitation |-> parse_precipitation(day.rain),
     native_wind_speed |-> parse_wind_speed(day.wspeed),
     native_wind_gust_speed |-> parse_wind_speed(day.wgusts),
     wind_bearing |-> translate_wind_direction(lang, day.wdir),
     humidity |-> Absent,
     native_pressure |-> Absent,
     cloud_coverage |-> Absent,
     uv_index |-> Float(day.uv)]

\* if date == today and self.coordinator.data
\* variant: every detailed day is taken for today
IsToday_Always(date, today) == TRUE
IsToday(date, today) == date = today

\* forecast_data.update({...}) for today's detailed day
DetailedForecast(day, cur, lang, today) ==
    LET base == DetailedBase(day, lang) IN
    IF IsToday(day.date, today) /\ Truthy(cur) /\ cur.current.present
    THEN [base EXCEPT
            !.condition = condition(cur),
            !.humidity = Float(cur.current.humidity),
            !.native_pressure = Float(cur.current.pressure),
            !.cloud_coverage = Float(cur.current.clouds),
            !.native_wind_speed = OrNum(@, parse_wind_speed(cur.current.wspeed)),
            !.wind_bearing = OrStr(@, translate_wind_direction(lang, cur.current.wdir))]
    ELSE base

\* Forecast(...) of one extended day
ExtendedForecast(day) ==
    [datetime |-> day.date,
     condition |-> AbsentStr,
     native_temperature |-> Float(day.maxTemp),
     native_apparent_temperature |-> Absent,
     native_templow |-> Float(day.minTemp),
     native_precipitation |-> Float(day.precipitation),
     native_wind_speed |-> Absent,
     native_wind_gust_speed |-> Absent,
     wind_bearing |-> AbsentStr,
     humidity |-> Absent,
     native_pressure |-> Absent,
     cloud_coverage |-> Absent,
     uv_index |-> Absent]

\* detailed_data[:5]
DetailedLimit == 5
Min(a, b) == IF a < b THEN a ELSE b
DetailedSlice(detailed) == SubSeq(detailed, 1, Min(DetailedLimit, Len(detailed)))
\* the slice is a new list, the list in the payload keeps its entries
\* variant: del detailed_data[5:]
StoredDetailed_Truncated(detailed) == DetailedSlice(detailed)
StoredDetailed(detailed) == detailed

\* first_forecast_date
FirstForecastDate(detailed, extended) ==
    IF detailed # <<>> THEN detailed[1].date
    ELSE IF extended # <<>> THEN extended[1].date
    ELSE NoDate

\* if first_forecast_date and first_forecast_date != today
TodayIsMissing(first, today) == first # NoDate /\ first # today

\* the dates of a list of forecasts
DatesOf(fs) == {fs[i].datetime : i \in 1..Len(fs)}

\* if date in forecast_dates: continue
IsDuplicate(date, forecast_dates) == date \in forecast_dates

\* for day in extended_data[detailed_days:], from (1-based) position i
RECURSIVE AddExtended(_, _, _, _)
AddExtended(forecasts, forecast_dates, extended, i) ==
    IF i > Len(extended) THEN forecasts
    ELSE IF IsDuplicate(extended[i].date, forecast_dates)
    THEN AddExtended(forecasts, forecast_dates, extended, i + 1)
    ELSE AddExtended(Append(forecasts, ExtendedForecast(extended[i])),
                     forecast_dates \cup {extended[i].date}, extended, i + 1)

\* the first position of the extended feed that is read
\* variant: the slice starts one entry late
ExtendedStart_SkipOne(detailed_days) == detailed_days + 2
ExtendedStart(detailed_days) == detailed_days + 1

\* what async_forecast_daily returns: None, or a list of forecasts
ReturnNone == [none |-> TRUE, list |-> <<>>]
\* variant: an empty list is returned as None
ReturnList_NoneIfEmpty(fs) == IF fs = <<>> THEN ReturnNone ELSE [none |-> FALSE, list |-> fs]
ReturnList(fs) == [none |-> FALSE, list |-> fs]

\* day["date"] raises KeyError for an entry that is read and has no date
RaisesKeyError(days, from) == \E i \in from..Len(days) : days[i].date = NoDate

\* forecast_dates: set[str] = set(), whatever an earlier call left
NewDateSet_Reused(left) == left
NewDateSet(left) == {}

\* MeteoLuxWeather.async_forecast_daily; left is forecast_dates as the
\* call before left it
forecast_daily(left, daily, cur, lang, today) ==
    IF ~Truthy(daily) THEN ReturnNone
    ELSE
    LET detailed == daily.daily
        extended == daily.ext
        first == FirstForecastDate(detailed, extended)
        \* forecast_dates is {today} exactly when the entry for today is added
        added == TodayIsMissing(first, today) /\ Truthy(cur) /\ cur.current.present
        f0 == IF added THEN <<TodayForecast(cur, lang, today)>> ELSE <<>>
        slice == DetailedSlice(detailed)
        f1 == f0 \o [i \in 1..Len(slice) |-> DetailedForecast(slice[i], cur, lang, today)]
        detailed_days == Len(f1)
    IN
    IF RaisesKeyError(slice, 1) THEN ReturnNone
    ELSE IF Len(extended) > detailed_days
    THEN IF RaisesKeyError(extended, ExtendedStart(detailed_days)) THEN ReturnNone
         ELSE ReturnList(AddExtended(f1, NewDateSet(left) \cup DatesOf(f1), extended,
                                     ExtendedStart(detailed_days)))
    ELSE ReturnList(f1)

(***************************************************************************)
(* The hourly forecast of weather.py                                       *)
(***************************************************************************)
\* forecast.hourly[i]; complete = FALSE when it has no "icon" key
Hour(t, complete) ==
    [date |-> t, complete |-> complete, icon |-> 3, temp |-> TempVal("num", <<14>>),
     felt |-> 13, wspeed |-> RangeStr("range", 10, 20), wgusts |-> NoRange,
     wdir |-> "NO", rain |-> RangeStr("range", 1, 2), humidity |-> 80,
     clouds |-> None, uv |-> 0]

\* the body of the hourly feed; present = FALSE when it has no
\* forecast.hourly key
HourlyPayload(present, hours) ==
    [has |-> TRUE, keys |-> TRUE, current |-> NoSnapshot, daily |-> <<>>, ext |-> <<>>,
     hourly |-> [present |-> present, hours |-> hours]]
HourlyPayloads ==
    {NoData, EmptyPayload, HourlyPayload(FALSE, <<>>), HourlyPayload(TRUE, <<>>),
     HourlyPayload(TRUE, <<Hour(1, TRUE), Hour(2, TRUE)>>),
     HourlyPayload(TRUE, <<Hour(1, TRUE), Hour(2, FALSE)>>)}

\* Forecast(...) of one hour
HourlyForecast(hour, lang) ==
    [datetime |-> hour.date,
     condition |-> CONDITION_MAP(hour.icon),
     native_temperature |-> parse_temperature(hour.temp),
     native_apparent_temperature |-> Float(hour.felt),
     native_wind_speed |-> parse_wind_speed(hour.wspeed),
     native_wind_gust_speed |-> parse_wind_speed(hour.wgusts),
     wind_bearing |-> translate_wind_direction(lang, hour.wdir),
     native_precipitation |-> parse_precipitation(hour.rain),
     humidity |-> Float(hour.humidity),
     cloud_coverage |-> Float(hour.clouds),
     uv_index |-> Float(hour.uv)]

\* MeteoLuxWeather.async_forecast_hourly; the subscripts raise TypeError on
\* None and KeyError on a missing key, and both give None
forecast_hourly(p, lang) ==
    IF ~Truthy(p) THEN ReturnNone
    ELSE IF ~(p.has /\ p.keys) THEN ReturnNone
    ELSE IF ~p.hourly.present THEN ReturnNone
    ELSE IF \E i \in 1..Len(p.hourly.hours) : ~p.hourly.hours[i].complete THEN ReturnNone
    ELSE ReturnList([i \in 1..Len(p.hourly.hours) |-> HourlyForecast(p.hourly.hours[i], lang)])

(***************************************************************************)
(* sensor.py                                                               *)
(***************************************************************************)
\* the keys of SENSOR_TYPES, read from the current feed
CurrentSensorKeys ==
    {"temperature", "apparent_temperature", "wind_speed", "wind_gusts",
     "wind_direction", "precipitation", "snow", "condition", "condition_text",
     "humidity", "pressure", "uv_index", "cloud_cover"}
\* the ephemeris and the location sensor, read from the current feed
InfoSensorKeys == {"ephemeris", "location"}
\* the forecast sensors of day 0, read from the daily feed
ForecastSensorKeys == {"temperature_high_0d", "temperature_low_0d", "precipitation_0d"}
SensorKeys == CurrentSensorKeys \cup InfoSensorKeys \cup ForecastSensorKeys

\* every body with keys carries the city and the ephemeris
CityName == "Luxembourg"
EphemerisDate == "2025-10-27"

\* value_fn of the description with key k, on a payload that is not None;
\* the bodies of the model have neither snow, icon name nor
\* forecast.forecast, so .get gives None for them
value_fn(k, p) ==
    IF ~(p.has /\ p.keys) THEN NoneVal
    ELSE IF k \in ForecastSensorKeys THEN NoneVal
    ELSE IF ~p.current.present THEN NoneVal
    ELSE CASE k = "temperature" -> NumVal(parse_temperature(p.current.temp))
           [] k = "apparent_temperature" -> NumVal(Float(p.current.felt))
           [] k = "wind_speed" -> NumVal(parse_wind_speed(p.current.wspeed))
           [] k = "wind_gusts" -> NumVal(parse_wind_speed(p.current.wgusts))
           [] k = "wind_direction" ->
                StrVal(IF p.current.wdir = "" THEN NoneStr ELSE p.current.wdir)
           [] k = "precipitation" -> NumVal(parse_precipitation(p.current.rain))
           [] k = "snow" -> NumVal(parse_precipitation(NoRange))
           [] k = "condition" ->
                StrVal(IF p.current.icon = None THEN NoneStr ELSE CONDITION_MAP(p.current.icon))
           [] k = "condition_text" -> NoneVal
           [] k = "humidity" -> NumVal(Float(p.current.humidity))
           [] k = "pressure" -> NumVal(Float(p.current.pressure))
           [] k = "uv_index" -> NumVal(Float(p.current.uv))
           [] OTHER -> NumVal(Float(p.current.clouds))

\* MeteoLuxSensor.native_value, and native_value of the ephemeris and the
\* location sensor
sensor_native_value(k, p, lang) ==
    IF ~Truthy(p) THEN NoneVal
    ELSE IF k = "ephemeris" THEN (IF p.has /\ p.keys THEN StrVal(EphemerisDate) ELSE NoneVal)
    ELSE IF k = "location" THEN (IF p.has /\ p.keys THEN StrVal(CityName) ELSE NoneVal)
    ELSE LET value == value_fn(k, p) IN
         IF k = "wind_direction" /\ ~value.none
         THEN StrVal(WIND_DIRECTION_MAP(IF lang \in SupportedLanguages THEN lang ELSE "en",
                                        value.str))
         ELSE value

\* the feed a sensor reads
SensorFeed(k) == IF k \in ForecastSensorKeys THEN "daily" ELSE "current"

VARIABLES
    cfg,          \* city_id, latitude, longitude, language of each coordinator
    session,      \* self._session: NoSession or the id of the session
    created,      \* number of aiohttp.ClientSession() calls
    closed,       \* ids of the sessions that are closed
    closeCalls,   \* number of session.close() calls
    shutdowns,    \* number of async_shutdown calls
    pc,           \* "idle", "awaiting" (a request in flight) or "sleeping"
    attempt,      \* the loop variable of the current or last refresh
    requests,     \* session.get calls of the current or last refresh
    sleeps,       \* delays slept in the current or last refresh
    reqSessions,  \* ids of the sessions session.get was called on
    last_error,   \* the local variable last_error
    last_outcome, \* what the current attempt ended in
    result,       \* what the current or last refresh gave its caller
    data,         \* coordinator.data
    refreshes,    \* number of refreshes started
    params,       \* the local variable params of the current or last refresh
    sent,         \* the params of the session.get calls of that refresh
    today,        \* datetime.now(timezone.utc).date()
    forecast_result, \* what the last async_forecast_daily call returned
    forecast_log,    \* what every async_forecast_daily call returned, in order
    forecast_dates,  \* the local forecast_dates as the last call left it
    readout,         \* the values last read from the entities
    parsed,          \* the last call of a parsing helper: its input and result
    entry,           \* entry.data of the config entry
    setup,           \* how far async_setup_entry has come
    location_data,   \* self.location_data of the config flow
    step             \* the form the config flow shows

\* the variables of the coordinators, and those of the entities
engineVars == <<cfg, session, created, closed, closeCalls, shutdowns, pc, attempt,
                requests, sleeps, reqSessions, last_error, last_outcome, result,
                data, refreshes, params, sent>>
entityVars == <<today, forecast_result, forecast_log, forecast_dates, readout, parsed>>
entryVars == <<entry, setup, location_data, step>>
vars == <<engineVars, entityVars, entryVars>>

\* entry.data: the location method and the keys city_id, latitude,
\* longitude (in tenths of a degree), address and language, None and NoneStr
\* where the key is missing; label is the one of the keys "city_name" and
\* "display_name" that the dict has
EntryData(m, c, lat, lon, a, lang, label) ==
    [method |-> m, city_id |-> c, latitude |-> lat, longitude |-> lon, address |-> a,
     language |-> lang, label |-> label]
\* no config entry has been created; self.location_data = {}
NoEntry == EntryData("none", None, None, None, NoneStr, "en", "none")

NotCalled == [called |-> FALSE, ret |-> ReturnNone]
\* a call of a parsing helper that has not run yet, on a range string r, a
\* temperature t, or a direction d in language lang
ToParse(fn, r, t, d, lang) ==
    [fn |-> fn, called |-> FALSE, range |-> r, temp |-> t, dir |-> d, lang |-> lang,
     out |-> NoneVal]
NotParsed == ToParse("none", NoRange, NoTemp, "", "en")

\* no entity has been read
NotRead ==
    [weather |-> [called |-> FALSE, vals |-> [a \in WeatherAccessors |-> NoneVal]],
     hourly |-> NotCalled,
     sensors |-> [called |-> FALSE, vals |-> [k \in SensorKeys |-> NoneVal]]]
Called(r) == [called |-> TRUE, ret |-> r]

Init ==
    /\ \E c \in Configs : cfg = [f \in Feeds |-> c]
    /\ session = [f \in Feeds |-> NoSession]
    /\ created = [f \in Feeds |-> 0]
    /\ closed = [f \in Feeds |-> {}]
    /\ closeCalls = [f \in Feeds |-> 0]
    /\ shutdowns = [f \in Feeds |-> 0]
    /\ pc = [f \in Feeds |-> "idle"]
    /\ attempt = [f \in Feeds |-> 0]
    /\ requests = [f \in Feeds |-> 0]
    /\ sleeps = [f \in Feeds |-> <<>>]
    /\ reqSessions = [f \in Feeds |-> {}]
    /\ last_error = [f \in Feeds |-> NoError]
    /\ last_outcome = [f \in Feeds |-> NoOutcome]
    /\ result = [f \in Feeds |-> NoResult]
    /\ data = [f \in Feeds |-> NoData]
    /\ refreshes = [f \in Feeds |-> 0]
    /\ params = [f \in Feeds |-> NoParams]
    /\ sent = [f \in Feeds |-> <<>>]
    /\ today = 1
    /\ forecast_result = NotCalled
    /\ forecast_log = <<>>
    /\ forecast_dates = {}
    /\ readout = NotRead
    /\ parsed = NotParsed
    /\ entry = NoEntry
    /\ setup = "done"
    /\ location_data = NoEntry
    /\ step = "user"

\* DataUpdateCoordinator: a refresh that returns replaces coordinator.data,
\* a refresh that raises UpdateFailed leaves it
StoreData(old, res) == IF res.kind = "ok" THEN res.payload ELSE old

\* the refresh of feed f ends with res
Finish(f, res) ==
    /\ result' = [result EXCEPT ![f] = res]
    /\ data' = [data EXCEPT ![f] = StoreData(data[f], res)]
    /\ pc' = [pc EXCEPT ![f] = "idle"]

\* session.get(url, params=params, timeout=...) on session s as attempt a:
\* a closed session raises RuntimeError before anything is sent
IssueRequest(f, s, a, isClosed, p) ==
    /\ sent' = [sent EXCEPT ![f] = IF a = 0 THEN <<p>> ELSE Append(@, p)]
    /\ attempt' = [attempt EXCEPT ![f] = a]
    /\ requests' = [requests EXCEPT ![f] = IF a = 0 THEN 1 ELSE @ + 1]
    /\ reqSessions' = [reqSessions EXCEPT ![f] = @ \cup {s}]
    /\ IF isClosed
       THEN LET c == OnException("Exception", a, last_error[f]) IN
            /\ last_outcome' = [last_outcome EXCEPT ![f] = Raised("Exception")]
            /\ Finish(f, Failed(c.err))
       ELSE /\ last_outcome' = [last_outcome EXCEPT ![f] = NoOutcome]
            /\ pc' = [pc EXCEPT ![f] = "awaiting"]
            /\ result' = [result EXCEPT ![f] = NoResult]
            /\ UNCHANGED data

\* _async_update_data up to its first await
BeginRefresh(f) ==
    /\ pc[f] = "idle"
    /\ refreshes[f] < MaxRefreshes
    /\ refreshes' = [refreshes EXCEPT ![f] = @ + 1]
    /\ LET create == NeedsSession(session[f])
           s == IF create THEN created[f] + 1 ELSE session[f]
           p == BuildParams(cfg[f])
       IN
       /\ params' = [params EXCEPT ![f] = p]
       /\ session' = [session EXCEPT ![f] = s]
       /\ created' = [created EXCEPT ![f] = IF create THEN @ + 1 ELSE @]
       /\ sleeps' = [sleeps EXCEPT ![f] = <<>>]
       /\ last_error' = [last_error EXCEPT ![f] = NoError]
       /\ IF p = NoParams
          THEN /\ Finish(f, Failed(UpdateFailed("No location specified", 0)))
               /\ attempt' = [attempt EXCEPT ![f] = 0]
               /\ requests' = [requests EXCEPT ![f] = 0]
               /\ last_outcome' = [last_outcome EXCEPT ![f] = NoOutcome]
               /\ sent' = [sent EXCEPT ![f] = <<>>]
               /\ UNCHANGED reqSessions
          ELSE IssueRequest(f, s, 0, s \in closed[f], p)
    /\ UNCHANGED <<cfg, closed, closeCalls, shutdowns, entityVars, entryVars>>

\* the request of the current attempt ends in outcome o
Respond(f, o) ==
    /\ pc[f] = "awaiting"
    /\ last_outcome' = [last_outcome EXCEPT ![f] = o]
    /\ LET c == Classify(o, attempt[f], last_error[f]) IN
       /\ last_error' = [last_error EXCEPT ![f] = c.last]
       /\ CASE c.act = "return" ->
                 /\ Finish(f, Returned(c.payload))
                 /\ UNCHANGED sleeps
            [] c.act = "raise" ->
                 /\ Finish(f, Failed(c.err))
                 /\ UNCHANGED sleeps
            [] OTHER ->
                 /\ sleeps' = [sleeps EXCEPT ![f] = Append(@, BackoffDelay(attempt[f]))]
                 /\ pc' = [pc EXCEPT ![f] = "sleeping"]
                 /\ UNCHANGED <<result, data>>
    /\ UNCHANGED <<cfg, session, created, closed, closeCalls, shutdowns, attempt,
                   requests, reqSessions, refreshes, params, sent, entityVars, entryVars>>

\* asyncio.sleep returns; continue with the next attempt
Wake(f) ==
    /\ pc[f] = "sleeping"
    /\ IssueRequest(f, session[f], attempt[f] + 1, session[f] \in closed[f], params[f])
    /\ UNCHANGED <<cfg, session, created, closed, closeCalls, shutdowns, sleeps,
                   last_error, refreshes, params, entityVars, entryVars>>

\* self._session after async_shutdown
SessionAfterShutdown(sess) == sess

\* async_shutdown
Shutdown(f) ==
    /\ shutdowns[f] < MaxShutdowns
    /\ shutdowns' = [shutdowns EXCEPT ![f] = @ + 1]
    /\ IF session[f] # NoSession
       THEN /\ closeCalls' = [closeCalls EXCEPT ![f] = @ + 1]
            /\ closed' = [closed EXCEPT ![f] = @ \cup {session[f]}]
            /\ session' = [session EXCEPT ![f] = SessionAfterShutdown(@)]
       ELSE UNCHANGED <<closeCalls, closed, session>>
    /\ UNCHANGED <<cfg, created, pc, attempt, requests, sleeps, reqSessions,
                   last_error, last_outcome, result, data, refreshes, params,
                   sent, entityVars, entryVars>>

Next ==
    \E f \in RetryFeeds :
        \/ BeginRefresh(f)
        \/ \E o \in Outcomes : Respond(f, o)
        \/ Wake(f)
        \/ Shutdown(f)

Spec == Init /\ [][Next]_vars

\* session.get runs under ClientTimeout(total=10), so a request in flight
\* ends in a response, an error or a timeout; asyncio.sleep(delay) returns
Fairness ==
    \A f \in RetryFeeds :
        /\ WF_vars(\E o \in Outcomes : Respond(f, o))
        /\ WF_vars(Wake(f))

\* the language is only passed on as the langcode parameter of the request
InitFair == Init /\ \A f \in Feeds : cfg[f].language = "en"

SpecFair == InitFair /\ [][Next]_vars /\ Fairness

(***************************************************************************)
(* The daily merge on the payloads of the daily and the current feed       *)
(***************************************************************************)
\* sequences over S of length at most n
SeqsUpTo(S, n) == UNION {[1..k -> S] : k \in 0..n}

\* n days of consecutive dates from start
DetailedRun(start, n) == [i \in 1..n |-> DetailedDay(start + i - 1, 1)]
ExtendedRun(start, n) == [i \in 1..n |-> ExtendedDay(start + i - 1, 1)]

\* feeds of arbitrary entries ("any") and feeds of consecutive dates ("run")
DetailedFeeds(family) ==
    IF family = "any"
    THEN SeqsUpTo({DetailedDay(d, p) : d \in Dates \cup {NoDate}, p \in 1..2},
                  MaxDetailedAny)
    ELSE {DetailedRun(d, n) : d \in Dates, n \in 0..MaxDetailedRun}
ExtendedFeeds(family) ==
    IF family = "any"
    THEN SeqsUpTo({ExtendedDay(d, 1) : d \in Dates \cup {NoDate}}, MaxExtendedAny)
         \cup {<<ExtendedDay(d, 2)>> : d \in Dates}
    ELSE {ExtendedRun(d, n) : d \in Dates, n \in 0..MaxExtendedRun}

\* payloads of the current feed
CurrentPayloads ==
    {NoData, EmptyPayload, Payload(NoSnapshot, <<>>, <<>>),
     Payload(SnapshotA, <<>>, <<>>), Payload(SnapshotB, <<>>, <<>>)}

\* coordinator.data of the three feeds
FeedData(daily, current) ==
    [f \in Feeds |-> IF f = "daily" THEN daily ELSE IF f = "current" THEN current
                     ELSE NoData]

\* the entity with the payloads of the daily and the current feed in place
InitMerge ==
    /\ cfg = [f \in Feeds |-> [city_id |-> None, latitude |-> 49, longitude |-> 6,
                                language |-> "en"]]
    /\ \E c \in CurrentPayloads :
          \/ \E d \in {NoData, EmptyPayload} : data = FeedData(d, c)
          \/ \E family \in {"any", "run"} :
                \E d \in DetailedFeeds(family), e \in ExtendedFeeds(family) :
                    data = FeedData(Payload(NoSnapshot, d, e), c)
    /\ session = [f \in Feeds |-> NoSession]
    /\ created = [f \in Feeds |-> 0]
    /\ closed = [f \in Feeds |-> {}]
    /\ closeCalls = [f \in Feeds |-> 0]
    /\ shutdowns = [f \in Feeds |-> 0]
    /\ pc = [f \in Feeds |-> "idle"]
    /\ attempt = [f \in Feeds |-> 0]
    /\ requests = [f \in Feeds |-> 0]
    /\ sleeps = [f \in Feeds |-> <<>>]
    /\ reqSessions = [f \in Feeds |-> {}]
    /\ last_error = [f \in Feeds |-> NoError]
    /\ last_outcome = [f \in Feeds |-> NoOutcome]
    /\ result = [f \in Feeds |-> NoResult]
    /\ refreshes = [f \in Feeds |-> 0]
    /\ params = [f \in Feeds |-> NoParams]
    /\ sent = [f \in Feeds |-> <<>>]
    /\ today \in Dates
    /\ forecast_result = NotCalled
    /\ forecast_log = <<>>
    /\ forecast_dates = {}
    /\ readout = NotRead
    /\ parsed = NotParsed
    /\ entry = NoEntry
    /\ setup = "done"
    /\ location_data = NoEntry
    /\ step = "user"

\* the weather entity is asked for its daily forecast
ForecastDaily ==
    /\ Len(forecast_log) < MaxCalls
    /\ LET ret == forecast_daily(forecast_dates, data["daily"], data["current"],
                                 cfg["current"].language, today)
       IN
       /\ forecast_result' = Called(ret)
       /\ forecast_log' = Append(forecast_log, ret)
       /\ forecast_dates' = NewDateSet(forecast_dates) \cup DatesOf(ret.list)
    \* the method assigns to its locals forecasts, forecast_dates and
    \* forecast_data only; of the payload it takes the slice
    /\ data' = [data EXCEPT !["daily"] =
                   IF Truthy(@) THEN [@ EXCEPT !.daily = StoredDetailed(@)] ELSE @]
    /\ UNCHANGED <<cfg, session, created, closed, closeCalls, shutdowns, pc, attempt,
                   requests, sleeps, reqSessions, last_error, last_outcome, result,
                   refreshes, params, sent, today, readout, parsed, entryVars>>

NextMerge == ForecastDaily

SpecMerge == InitMerge /\ [][NextMerge]_vars

\* C1: the dates of the entries async_forecast_daily returns are pairwise
\* distinct
C1_DatesDistinct ==
    (forecast_result.called /\ ~forecast_result.ret.none) =>
        \A i, j \in 1..Len(forecast_result.ret.list) :
            i # j => forecast_result.ret.list[i].datetime # forecast_result.ret.list[j].datetime

(***************************************************************************)
(* Properties of the fetch-retry engine, checked under Spec                *)
(***************************************************************************)
\* C2: one refresh issues at most 7 requests, and does not sleep after the
\* 7th attempt
C2_AtMostSevenRequests ==
    \A f \in Feeds :
        /\ requests[f] <= 7
        /\ Len(sleeps[f]) <= 6
        /\ (pc[f] = "sleeping" => requests[f] < 7)

C2_Witness ==
    \E f \in Feeds : requests[f] = 7 /\ pc[f] = "idle" /\ result[f].kind = "failed"

\* C3: when attempt k+1 answers 200 (with a JSON body) after k retryable
\* outcomes, the refresh returns that payload, having slept the first k
\* delays of 2, 4, 8, 16, 30, 60, one between each two attempts
C3_BackoffSchedule ==
    \A f \in Feeds :
        (last_outcome[f].type = "response" /\ last_outcome[f].status = 200
            /\ last_outcome[f].json = "ok") =>
        LET k == attempt[f] IN
        /\ k \in 0..6
        /\ pc[f] = "idle"
        /\ result[f] = Returned(last_outcome[f].payload)
        /\ requests[f] = k + 1
        /\ sleeps[f] = SubSeq(<<2, 4, 8, 16, 30, 60>>, 1, k)

C3_Witness ==
    \E f \in Feeds :
        /\ last_outcome[f].status = 200 /\ last_outcome[f].json = "ok"
        /\ attempt[f] = 3 /\ sleeps[f] = <<2, 4, 8>> /\ SumSeq(sleeps[f]) = 14
        /\ result[f].kind = "ok"

\* C4: a 4xx status other than 429 ends the refresh on that attempt with a
\* failure and no sleep; as the first response, after one request
C4_ClientErrorFailsAtOnce ==
    \A f \in Feeds :
        (last_outcome[f].type = "response" /\ 400 <= last_outcome[f].status
            /\ last_outcome[f].status <= 499 /\ last_outcome[f].status # 429) =>
        /\ pc[f] = "idle"
        /\ result[f].kind = "failed"
        /\ requests[f] = attempt[f] + 1
        /\ Len(sleeps[f]) = attempt[f]
        /\ (attempt[f] = 0 => requests[f] = 1 /\ sleeps[f] = <<>>)

C4_Witness ==
    \E f \in Feeds :
        /\ last_outcome[f].type = "response" /\ last_outcome[f].status = 404
        /\ attempt[f] = 0 /\ requests[f] = 1 /\ result[f].kind = "failed"

\* C5: 429, 5xx, a network error and a timeout are retried while attempts
\* remain, and fail the refresh only on the 7th attempt
IsRetryableOutcome(o) ==
    \/ o.type = "response" /\ (o.status = 429 \/ (500 <= o.status /\ o.status <= 599))
    \/ o.type \in {"ClientError", "TimeoutError"}

C5_RetryableUntilExhausted ==
    \A f \in Feeds :
        IsRetryableOutcome(last_outcome[f]) =>
            IF attempt[f] < 6
            THEN pc[f] = "sleeping" /\ result[f].kind = "none"
                 /\ Len(sleeps[f]) = attempt[f] + 1
            ELSE pc[f] = "idle" /\ result[f].kind = "failed" /\ requests[f] = 7

C5_Witness ==
    \E f \in Feeds :
        /\ last_outcome[f].type = "response" /\ last_outcome[f].status = 429
        /\ attempt[f] = 6 /\ result[f].kind = "failed"

\* C6: every response with a status in 200..299 (and a JSON body) makes the
\* refresh return its payload on that attempt, without sleeping
C6_Every2xxIsSuccess ==
    \A f \in Feeds :
        (last_outcome[f].type = "response" /\ 200 <= last_outcome[f].status
            /\ last_outcome[f].status <= 299 /\ last_outcome[f].json = "ok") =>
        /\ pc[f] = "idle"
        /\ result[f] = Returned(last_outcome[f].payload)
        /\ Len(sleeps[f]) = attempt[f]

\* C7: a refresh of a feed without a city id and without both coordinates
\* fails with "No location specified", with no request and no sleep
C7_NoLocationFailsAtOnce ==
    \A f \in Feeds :
        (cfg[f].city_id = None /\ (cfg[f].latitude = None \/ cfg[f].longitude = None)) =>
        /\ requests[f] = 0
        /\ sleeps[f] = <<>>
        /\ pc[f] = "idle"
        /\ (refreshes[f] > 0 =>
              result[f] = Failed(UpdateFailed("No location specified", 0)))

C7_Witness ==
    \E f \in Feeds :
        /\ cfg[f].city_id = None /\ cfg[f].latitude # None /\ cfg[f].longitude = None
        /\ refreshes[f] > 0 /\ result[f].kind = "failed"

\* C8: the payload of a feed changes only when a refresh of it gets a 200
\* response with a JSON body, and then it becomes that body; a refresh that
\* fails leaves it as it was
C8_PayloadKeptOnFailure ==
    [][\A f \in Feeds :
          /\ (data'[f] # data[f] =>
                /\ last_outcome'[f].type = "response" /\ last_outcome'[f].status = 200
                /\ last_outcome'[f].json = "ok"
                /\ result'[f].kind = "ok"
                /\ data'[f] = last_outcome'[f].payload)
          /\ (result'[f].kind = "ok" /\ result[f].kind # "ok" => data'[f] = result'[f].payload)
          /\ (result'[f].kind = "failed" => data'[f] = data[f])]_vars

C8_Witness ==
    \E f \in Feeds : data[f] \in Payloads /\ result[f].kind = "failed" /\ refreshes[f] = 2

\* C9: however often async_shutdown is called, close is called at most once
\* on the session, and never when no session was created
C9_CloseAtMostOnce ==
    \A f \in Feeds :
        /\ closeCalls[f] <= 1
        /\ (created[f] = 0 => closeCalls[f] = 0)

\* C10: a feed creates at most one session, not before its first refresh,
\* and every request of it goes out on that session
C10_OneSession ==
    \A f \in Feeds :
        /\ created[f] <= 1
        /\ (refreshes[f] = 0 => created[f] = 0 /\ session[f] = NoSession)
        /\ (refreshes[f] > 0 => created[f] = 1 /\ session[f] # NoSession)
        /\ reqSessions[f] \subseteq {session[f]}
        /\ Cardinality(reqSessions[f]) <= 1

C10_Witness ==
    \E f \in Feeds :
        /\ refreshes[f] = 2 /\ attempt[f] > 0 /\ requests[f] > 1
        /\ created[f] = 1 /\ reqSessions[f] = {1}

\* a refresh of feed f that is over has returned the body of a 200 response
\* or raised an UpdateFailed, and it returned exactly when its last request
\* got a 200 response with a JSON body
RefreshOutcomeKept(f) ==
    (pc[f] = "idle" /\ refreshes[f] > 0) =>
        /\ result[f].kind \in {"ok", "failed"}
        /\ (result[f].kind = "ok" <=>
                /\ last_outcome[f].type = "response" /\ last_outcome[f].status = 200
                /\ last_outcome[f].json = "ok")
        /\ (result[f].kind = "ok" => result[f].payload = last_outcome[f].payload)
        /\ (result[f].kind = "failed" =>
                result[f].err.msg \in {"No location specified", "Error fetching data",
                                       "Error communicating with API", "Request timeout",
                                       "Unexpected error"})

\* C11: every refresh that is started ends, when every request ends in a
\* response, an error or a timeout; it ends by returning a payload or by
\* raising an UpdateFailed, and a failure is never dropped nor turned into
\* a returned payload
C11_RefreshEnds ==
    /\ [](\A f \in Feeds : RefreshOutcomeKept(f))
    /\ \A f \in RetryFeeds : (pc[f] # "idle") ~> (pc[f] = "idle")

C11_Witness ==
    \E f \in Feeds :
        /\ pc[f] = "idle" /\ requests[f] = 7 /\ result[f].kind = "failed"
        /\ last_outcome[f].type = "TimeoutError"

(***************************************************************************)
(* The entities on the payloads of the three feeds                         *)
(***************************************************************************)
FeedsData(daily, current, hourly) ==
    [f \in Feeds |-> IF f = "daily" THEN daily ELSE IF f = "current" THEN current
                     ELSE hourly]

\* a daily payload with more detailed days than the merge reads
LongPayloads == {Payload(SnapshotA, DetailedRun(1, MaxDetailedRun), <<>>)}

InitEntity ==
    /\ \E lang \in Languages :
          cfg = [f \in Feeds |-> [city_id |-> None, latitude |-> 49, longitude |-> 6,
                                  language |-> lang]]
    /\ \E c \in CurrentPayloads, h \in HourlyPayloads :
          \E d \in {NoData, EmptyPayload} \cup Payloads \cup LongPayloads :
              data = FeedsData(d, c, h)
    /\ session = [f \in Feeds |-> NoSession]
    /\ created = [f \in Feeds |-> 0]
    /\ closed = [f \in Feeds |-> {}]
    /\ closeCalls = [f \in Feeds |-> 0]
    /\ shutdowns = [f \in Feeds |-> 0]
    /\ pc = [f \in Feeds |-> "idle"]
    /\ attempt = [f \in Feeds |-> 0]
    /\ requests = [f \in Feeds |-> 0]
    /\ sleeps = [f \in Feeds |-> <<>>]
    /\ reqSessions = [f \in Feeds |-> {}]
    /\ last_error = [f \in Feeds |-> NoError]
    /\ last_outcome = [f \in Feeds |-> NoOutcome]
    /\ result = [f \in Feeds |-> NoResult]
    /\ refreshes = [f \in Feeds |-> 0]
    /\ params = [f \in Feeds |-> NoParams]
    /\ sent = [f \in Feeds |-> <<>>]
    /\ today \in Dates
    /\ forecast_result = NotCalled
    /\ forecast_log = <<>>
    /\ forecast_dates = {}
    /\ readout = NotRead
    /\ parsed = NotParsed
    /\ entry = NoEntry
    /\ setup = "done"
    /\ location_data = NoEntry
    /\ step = "user"

\* the state of the weather entity is written: every property is read
ReadWeather ==
    /\ ~readout.weather.called
    /\ readout' = [readout EXCEPT !.weather =
          [called |-> TRUE,
           vals |-> [a \in WeatherAccessors |->
                       weather_property(a, data["current"], cfg["current"].language)]]]
    /\ UNCHANGED <<engineVars, today, forecast_result, forecast_log, forecast_dates, parsed,
                   entryVars>>

\* the weather entity is asked for its hourly forecast
ForecastHourly ==
    /\ ~readout.hourly.called
    /\ readout' = [readout EXCEPT !.hourly =
          Called(forecast_hourly(data["hourly"], cfg["current"].language))]
    /\ UNCHANGED <<engineVars, today, forecast_result, forecast_log, forecast_dates, parsed,
                   entryVars>>

\* the states of the sensors are written: native_value of every sensor
ReadSensors ==
    /\ ~readout.sensors.called
    /\ readout' = [readout EXCEPT !.sensors =
          [called |-> TRUE,
           vals |-> [k \in SensorKeys |->
                       sensor_native_value(k, data[SensorFeed(k)], cfg[SensorFeed(k)].language)]]]
    /\ UNCHANGED <<engineVars, today, forecast_result, forecast_log, forecast_dates, parsed,
                   entryVars>>

NextEntity == ReadWeather \/ ForecastHourly \/ ReadSensors \/ ForecastDaily

SpecEntity == InitEntity /\ [][NextEntity]_vars

\* C20: while a feed has no payload, every property of the weather entity
\* that reads it, the daily and the hourly forecast and the value of every
\* sensor that reads it are None
C20_NoPayloadGivesNone ==
    /\ (readout.weather.called /\ ~data["current"].has) =>
          \A a \in WeatherAccessors : readout.weather.vals[a] = NoneVal
    /\ (readout.hourly.called /\ ~data["hourly"].has) =>
          readout.hourly.ret = [none |-> TRUE, list |-> <<>>]
    /\ (forecast_result.called /\ ~data["daily"].has) =>
          forecast_result.ret = [none |-> TRUE, list |-> <<>>]
    /\ readout.sensors.called =>
          \A k \in SensorKeys :
              ~data[SensorFeed(k)].has => readout.sensors.vals[k] = NoneVal

C20_Witness ==
    /\ \A f \in Feeds : ~data[f].has
    /\ readout.weather.called /\ readout.hourly.called /\ readout.sensors.called
    /\ forecast_result.called
    /\ readout.weather.vals["condition"] = NoneVal
    /\ readout.sensors.vals["temperature"] = NoneVal
    /\ readout.hourly.ret.none /\ forecast_result.ret.none

(***************************************************************************)
(* Properties of the daily merge, checked under SpecMerge                  *)
(***************************************************************************)
\* the two source feeds of the daily payload, and the list the last call
\* returned
DetailedFeed == data["daily"].daily
ExtendedFeed == data["daily"].ext
Merged == forecast_result.ret.list
HasMerged == forecast_result.called /\ ~forecast_result.ret.none

\* where an entry of the merged list comes from: only the entry built from
\* the current weather has an apparent temperature, only an extended entry
\* lacks the wind speed
FromCurrent(fc) == fc.native_apparent_temperature # Absent
FromExtended(fc) == fc.native_wind_speed = Absent
FromDetailed(fc) == ~FromCurrent(fc) /\ ~FromExtended(fc)

\* every entry of the feed has a date, and the dates ascend
Ascending(days) ==
    /\ \A i \in 1..Len(days) : days[i].date # NoDate
    /\ \A i, j \in 1..Len(days) : i < j => days[i].date < days[j].date

\* C12: when both source feeds are sorted by ascending date, the dates of
\* the merged list never decrease, whatever the current date is
C12_DatesInOrder ==
    (HasMerged /\ Ascending(DetailedFeed) /\ Ascending(ExtendedFeed)) =>
        \A i, j \in 1..Len(Merged) : i < j => Merged[i].datetime <= Merged[j].datetime

\* C13: a date that a detailed entry and an extended entry share has
\* exactly one entry in the merged list, and that entry is built from a
\* detailed entry of that date
C13_SharedDateIsDetailed ==
    HasMerged =>
        \A i \in 1..Len(DetailedFeed), j \in 1..Len(ExtendedFeed) :
            (DetailedFeed[i].date = ExtendedFeed[j].date /\ DetailedFeed[i].date # NoDate) =>
                LET same == {k \in 1..Len(Merged) : Merged[k].datetime = DetailedFeed[i].date} IN
                /\ Cardinality(same) = 1
                /\ \A k \in same :
                      /\ FromDetailed(Merged[k])
                      /\ \E n \in 1..Len(DetailedFeed) :
                            /\ DetailedFeed[n].date = Merged[k].datetime
                            /\ Merged[k].native_temperature = parse_temperature(DetailedFeed[n].tmax)
                            /\ Merged[k].native_templow = parse_temperature(DetailedFeed[n].tmin)
                            /\ Merged[k].uv_index = Float(DetailedFeed[n].uv)

\* the detailed feed has at most 5 entries, their dates are the first dates
\* of the extended feed, whose dates ascend, and today is the first date
FeedsAligned ==
    /\ Truthy(data["daily"])
    /\ Len(DetailedFeed) <= 5 /\ Len(DetailedFeed) <= Len(ExtendedFeed)
    /\ Len(ExtendedFeed) >= 1
    /\ Ascending(ExtendedFeed)
    /\ \A i \in 1..Len(DetailedFeed) : DetailedFeed[i].date = ExtendedFeed[i].date
    /\ today = ExtendedFeed[1].date

\* C14: for n <= 5 detailed entries on the first n dates of m extended
\* entries and today the first date, the merged list has m entries: the n
\* detailed ones, then the extended ones of positions n+1..m, in feed order
C14_AlignedFeedsGiveM ==
    (forecast_result.called /\ FeedsAligned) =>
        /\ ~forecast_result.ret.none
        /\ Len(Merged) = Len(ExtendedFeed)
        /\ \A i \in 1..Len(Merged) :
              IF i <= Len(DetailedFeed)
              THEN /\ FromDetailed(Merged[i])
                   /\ Merged[i].datetime = DetailedFeed[i].date
                   /\ Merged[i].native_temperature = parse_temperature(DetailedFeed[i].tmax)
                   /\ Merged[i].uv_index = Float(DetailedFeed[i].uv)
              ELSE /\ FromExtended(Merged[i])
                   /\ Merged[i].datetime = ExtendedFeed[i].date
                   /\ Merged[i].native_temperature = Float(ExtendedFeed[i].maxTemp)
                   /\ Merged[i].native_templow = Float(ExtendedFeed[i].minTemp)

C14_Witness ==
    /\ forecast_result.called /\ FeedsAligned
    /\ Len(DetailedFeed) = 5 /\ Len(ExtendedFeed) = 7 /\ Len(Merged) = 7
    /\ FromDetailed(Merged[5]) /\ FromExtended(Merged[6])

\* the dates that occur in the two source feeds
SourceDates ==
    ({DetailedFeed[i].date : i \in 1..Len(DetailedFeed)}
     \cup {ExtendedFeed[i].date : i \in 1..Len(ExtendedFeed)}) \ {NoDate}

\* C15: the merged list has at most one entry more than there are distinct
\* dates in the two source feeds
C15_LengthBounded ==
    HasMerged => Len(Merged) <= Cardinality(SourceDates) + 1

\* the detailed day has no wind speed of its own: the key is missing, null
\* or empty, float() rejects it, or it is zero
NoOwnWindSpeed(day) ==
    \/ day.wspeed.k \in {"none", "empty", "bad"}
    \/ day.wspeed.k = "num" /\ day.wspeed.a = 0
    \/ day.wspeed.k = "range" /\ day.wspeed.a + day.wspeed.b = 0
NoOwnWindBearing(day) == day.wdir \in {"", NoneStr}

\* the position in the merged list of the detailed entry at position i
MergedIndex(i) == IF Len(Merged) > 0 /\ FromCurrent(Merged[1]) THEN i + 1 ELSE i

\* C16: with the current weather at hand, the entry of the detailed day of
\* today takes condition, humidity, pressure and cloud cover from the
\* current weather, wind speed and bearing from it only where the detailed
\* day has none of its own, and keeps the detailed day's high and low
\* temperature, precipitation, gust speed and UV index
C16_TodayOverlay ==
    (HasMerged /\ HasCurrent(data["current"])) =>
        \A i \in 1..Min(DetailedLimit, Len(DetailedFeed)) :
            DetailedFeed[i].date = today =>
                LET day == DetailedFeed[i]
                    now == data["current"].current
                    lang == cfg["current"].language
                    fc == Merged[MergedIndex(i)]
                IN
                /\ fc.datetime = today
                /\ fc.condition = (IF now.icon = None THEN NoneStr ELSE CONDITION_MAP(now.icon))
                /\ fc.humidity = Float(now.humidity)
                /\ fc.native_pressure = Float(now.pressure)
                /\ fc.cloud_coverage = Float(now.clouds)
                /\ fc.native_wind_speed =
                      (IF NoOwnWindSpeed(day) THEN parse_wind_speed(now.wspeed)
                       ELSE parse_wind_speed(day.wspeed))
                /\ fc.wind_bearing =
                      (IF NoOwnWindBearing(day) THEN translate_wind_direction(lang, now.wdir)
                       ELSE translate_wind_direction(lang, day.wdir))
                /\ fc.native_temperature = parse_temperature(day.tmax)
                /\ fc.native_templow = parse_temperature(day.tmin)
                /\ fc.native_precipitation = parse_precipitation(day.rain)
                /\ fc.native_wind_gust_speed = parse_wind_speed(day.wgusts)
                /\ fc.uv_index = Float(day.uv)

C16_Witness ==
    /\ HasMerged /\ data["current"].current = SnapshotA
    /\ Len(DetailedFeed) >= 1 /\ DetailedFeed[1] = DetailedDay(today, 2)
    /\ Merged[1].native_wind_speed = 50 /\ Merged[1].wind_bearing = "SW"
    /\ Merged[1].condition = "partlycloudy" /\ Merged[1].humidity = 150
    /\ Merged[1].native_temperature = 36 /\ Merged[1].uv_index = None

\* both source feeds are empty and there is no current weather
NothingToMerge ==
    DetailedFeed = <<>> /\ ExtendedFeed = <<>> /\ ~HasCurrent(data["current"])

\* C17 as stated: with both source feeds empty and no current weather the
\* daily merge returns the empty list, never None
C17_EmptyFeedsGiveEmptyList ==
    (forecast_result.called /\ NothingToMerge) =>
        forecast_result.ret = [none |-> FALSE, list |-> <<>>]

\* C17, amended: with a daily payload that is not empty, both source feeds
\* empty and no current weather, the daily merge returns the empty list;
\* with no daily payload, or the body {}, it returns None
C17_EmptyFeedsOfPayload ==
    (forecast_result.called /\ NothingToMerge) =>
        IF data["daily"].has /\ data["daily"].keys
        THEN forecast_result.ret = [none |-> FALSE, list |-> <<>>]
        ELSE forecast_result.ret = [none |-> TRUE, list |-> <<>>]

C17_Witness ==
    /\ forecast_result.called /\ NothingToMerge
    /\ data["daily"].has /\ data["daily"].keys
    /\ data["current"] = Payload(NoSnapshot, <<>>, <<>>)
    /\ ~forecast_result.ret.none /\ forecast_result.ret.list = <<>>

C19_OneLocationSelector ==
    \A f \in Feeds :
        /\ Len(sent[f]) = requests[f]
        /\ \A i \in 1..Len(sent[f]) :
              /\ sent[f][i].langcode = cfg[f].language
              /\ IF cfg[f].city_id # None
                 THEN /\ sent[f][i].city = cfg[f].city_id
                      /\ sent[f][i].lat = None /\ sent[f][i].long = None
                 ELSE /\ sent[f][i].city = None
                      /\ sent[f][i].lat = cfg[f].latitude /\ sent[f][i].lat # None
                      /\ sent[f][i].long = cfg[f].longitude /\ sent[f][i].long # None
              /\ sent[f][i] = sent[f][1]

C19_Witness ==
    \E f \in Feeds :
        /\ cfg[f].city_id = 490 /\ cfg[f].latitude = 49 /\ cfg[f].longitude = 6
        /\ cfg[f].language = "fr"
        /\ Len(sent[f]) = 3
        /\ sent[f][3] = [sel |-> "city", city |-> 490, lat |-> None, long |-> None,
                         langcode |-> "fr"]

(***************************************************************************)
(* The parsing helpers, each called once on an input drawn by InitParse    *)
(***************************************************************************)
RangeInputs ==
    {NoRange, RangeStr("empty", 0, 0), RangeStr("bad", 0, 0)}
    \cup {RangeStr("num", a, 0) : a \in 0..MaxNumber}
    \cup {RangeStr("range", a, b) : a \in 0..MaxNumber, b \in 0..MaxNumber}
TempInputs ==
    {NoTemp, TempVal("text", <<>>), TempVal("bool", <<0>>), TempVal("bool", <<1>>)}
    \cup {TempVal("num", <<v>>) : v \in 0..MaxNumber}
    \cup {TempVal("list", q) : q \in SeqsUpTo(0..MaxNumber, MaxTempLen)}
DirectionInputs == DirectionCodes \cup {"X", "", NoneStr}
LanguageInputs == SupportedLanguages \cup {"xx"}

InitParse ==
    /\ cfg = [f \in Feeds |-> [city_id |-> None, latitude |-> 49, longitude |-> 6,
                                language |-> "en"]]
    /\ data = [f \in Feeds |-> NoData]
    /\ session = [f \in Feeds |-> NoSession]
    /\ created = [f \in Feeds |-> 0]
    /\ closed = [f \in Feeds |-> {}]
    /\ closeCalls = [f \in Feeds |-> 0]
    /\ shutdowns = [f \in Feeds |-> 0]
    /\ pc = [f \in Feeds |-> "idle"]
    /\ attempt = [f \in Feeds |-> 0]
    /\ requests = [f \in Feeds |-> 0]
    /\ sleeps = [f \in Feeds |-> <<>>]
    /\ reqSessions = [f \in Feeds |-> {}]
    /\ last_error = [f \in Feeds |-> NoError]
    /\ last_outcome = [f \in Feeds |-> NoOutcome]
    /\ result = [f \in Feeds |-> NoResult]
    /\ refreshes = [f \in Feeds |-> 0]
    /\ params = [f \in Feeds |-> NoParams]
    /\ sent = [f \in Feeds |-> <<>>]
    /\ today = 1
    /\ forecast_result = NotCalled
    /\ forecast_log = <<>>
    /\ forecast_dates = {}
    /\ readout = NotRead
    /\ entry = NoEntry
    /\ setup = "done"
    /\ location_data = NoEntry
    /\ step = "user"
    /\ \/ \E fn \in {"parse_wind_speed", "parse_precipitation"}, r \in RangeInputs :
             parsed = ToParse(fn, r, NoTemp, "", "en")
       \/ \E t \in TempInputs : parsed = ToParse("parse_temperature", NoRange, t, "", "en")
       \/ \E d \in DirectionInputs, lang \in LanguageInputs :
             parsed = ToParse("translate_wind_direction", NoRange, NoTemp, d, lang)

\* the helper fn returns out
Parsed(fn, out) ==
    /\ parsed.fn = fn /\ ~parsed.called
    /\ parsed' = [parsed EXCEPT !.called = TRUE, !.out = out]
    /\ UNCHANGED <<engineVars, today, forecast_result, forecast_log, forecast_dates,
                   readout, entryVars>>

ParseWindSpeed == Parsed("parse_wind_speed", NumVal(parse_wind_speed(parsed.range)))
ParsePrecipitation == Parsed("parse_precipitation", NumVal(parse_precipitation(parsed.range)))
ParseTemperature == Parsed("parse_temperature", NumVal(parse_temperature(parsed.temp)))
TranslateWindDirection ==
    Parsed("translate_wind_direction", StrVal(translate_wind_direction(parsed.lang, parsed.dir)))

NextParse ==
    ParseWindSpeed \/ ParsePrecipitation \/ ParseTemperature \/ TranslateWindDirection

SpecParse == InitParse /\ [][NextParse]_vars

\* the helper fn has been called
Ran(fn) == parsed.fn = fn /\ parsed.called

\* the English and the German (and Luxembourgish) abbreviation of a code
EnglishCode(d) == IF d = "SO" THEN "SW" ELSE IF d = "O" THEN "W" ELSE IF d = "NO" THEN "NW" ELSE d
GermanCode(d) ==
    IF d = "NE" THEN "NO" ELSE IF d = "E" THEN "O" ELSE IF d = "SE" THEN "SO"
    ELSE EnglishCode(d)

\* C21: the translation gives the abbreviation of the requested language
\* ("O" is "W" in English and in German and stays "O" in French), uses the
\* English table for a language that is not supported, returns a code that
\* is not in the table unchanged, and gives None for a missing direction
C21_Translation ==
    Ran("translate_wind_direction") =>
        /\ (parsed.dir \in {"", NoneStr} => parsed.out = NoneVal)
        /\ (parsed.dir = "X" => parsed.out = StrVal("X"))
        /\ (parsed.dir \in DirectionCodes =>
              parsed.out = StrVal(CASE parsed.lang = "fr" -> parsed.dir
                                    [] parsed.lang \in {"de", "lb"} -> GermanCode(parsed.dir)
                                    [] OTHER -> EnglishCode(parsed.dir)))
        /\ (parsed.dir = "O" /\ parsed.lang \in {"en", "de", "xx"} => parsed.out = StrVal("W"))
        /\ (parsed.dir = "O" /\ parsed.lang = "fr" => parsed.out = StrVal("O"))

C21_Witness ==
    /\ Ran("translate_wind_direction")
    /\ parsed.dir = "SO" /\ parsed.lang = "xx" /\ parsed.out = StrVal("SW")

\* C22: the range parsers return the midpoint (a+b)/2 of a range "a-b",
\* the number of a plain number string, and 0 for "0"
C22_Midpoint ==
    (Ran("parse_wind_speed") \/ Ran("parse_precipitation")) =>
        /\ (parsed.range.k = "range" /\ parsed.range.a <= parsed.range.b =>
              /\ ~parsed.out.none
              /\ parsed.out.num = parsed.range.a + parsed.range.b)
        /\ (parsed.range.k = "num" =>
              /\ ~parsed.out.none
              /\ parsed.out.num = 2 * parsed.range.a)

C22_Witness ==
    /\ Ran("parse_precipitation")
    /\ parsed.range = RangeStr("range", 1, 2) /\ parsed.out = NumVal(3)

C24_MeanOrNumber ==
    Ran("parse_temperature") =>
        LET t == parsed.temp IN
        /\ (t.k = "list" /\ Len(t.v) >= 1 =>
              /\ ~parsed.out.none
              /\ parsed.out.num * Len(t.v) <= 2 * SumSeq(t.v)
              /\ 2 * SumSeq(t.v) < (parsed.out.num + 1) * Len(t.v))
        /\ (t.k = "num" => ~parsed.out.none /\ parsed.out.num = 2 * t.v[1])
        /\ (t.k = "none" \/ (t.k = "list" /\ Len(t.v) = 0) \/ t.k \in {"text", "bool"} =>
              parsed.out = NoneVal)

\* the first date of the detailed feed or, if that feed is empty, of the
\* extended feed
FirstSourceDate ==
    IF DetailedFeed # <<>> THEN DetailedFeed[1].date
    ELSE IF ExtendedFeed # <<>> THEN ExtendedFeed[1].date
    ELSE NoDate
\* the merged list starts with an entry built from the current weather
StartsWithToday == Len(Merged) > 0 /\ FromCurrent(Merged[1])

\* C25: an entry for today is built from the current weather exactly when
\* the first date of the detailed feed (of the extended feed, if the
\* detailed one is empty) is strictly after today and the current weather
\* is at hand; it is then the first entry, every value of it comes from the
\* current weather, and it has no low temperature
C25_TodayWhenFeedStartsLater ==
    HasMerged =>
        /\ StartsWithToday <=>
              (FirstSourceDate # NoDate /\ FirstSourceDate > today
               /\ HasCurrent(data["current"]))
        /\ StartsWithToday =>
              /\ Merged[1].datetime = today
              /\ Merged[1].native_templow = None
              /\ Merged[1].humidity = Float(data["current"].current.humidity)
              /\ Merged[1].native_pressure = Float(data["current"].current.pressure)
              /\ Merged[1].uv_index = Float(data["current"].current.uv)
              /\ Merged[1].native_temperature = parse_temperature(data["current"].current.temp)
        /\ \A j \in 2..Len(Merged) : ~FromCurrent(Merged[j])

\* the dates of the entries of the merged list that do not come from the
\* extended feed
PlacedDates == {Merged[j].datetime : j \in {k \in 1..Len(Merged) : ~FromExtended(Merged[k])}}
\* the number of detailed entries that are processed
DetailedProcessed == Min(DetailedLimit, Len(DetailedFeed))

\* C26: the extended feed is read from the position after the number of
\* detailed entries processed, the entry for today not counted: every
\* extended entry from there on whose date is not yet in the list gives one
\* entry with only date, high, low and precipitation, and an extended
\* entry whose date is in the list already gives none
C26_ExtendedFromDetailedCount ==
    HasMerged =>
        /\ \A i \in (DetailedProcessed + 1)..Len(ExtendedFeed) :
              ExtendedFeed[i].date \notin PlacedDates =>
                  \E j \in 1..Len(Merged) : Merged[j] = ExtendedForecast(ExtendedFeed[i])
        /\ \A j \in 1..Len(Merged) :
              FromExtended(Merged[j]) =>
                  /\ Merged[j].datetime \notin PlacedDates
                  /\ \E i \in (DetailedProcessed + 1)..Len(ExtendedFeed) :
                        Merged[j] = ExtendedForecast(ExtendedFeed[i])
        /\ \A j, k \in 1..Len(Merged) :
              (j < k /\ FromExtended(Merged[j]) /\ FromExtended(Merged[k])) =>
                  Merged[j].datetime # Merged[k].datetime

\* the merge by set: the entries placed so far, then every entry of the
\* whole extended feed whose date is not placed yet
RECURSIVE FilterByPlaced(_, _, _)
FilterByPlaced(placed, extended, i) ==
    IF i > Len(extended) THEN <<>>
    ELSE IF extended[i].date \in placed THEN FilterByPlaced(placed, extended, i + 1)
    ELSE <<ExtendedForecast(extended[i])>>
         \o FilterByPlaced(placed \cup {extended[i].date}, extended, i + 1)
SetBasedMerge ==
    SelectSeq(Merged, LAMBDA fc : ~FromExtended(fc))
    \o FilterByPlaced(PlacedDates, ExtendedFeed, 1)

\* C27: the merge by position (the extended feed read from the position
\* after the detailed entries, then skipped by date) returns the same list
\* as the merge by set, for feeds all of whose entries have a date
C27_IndexMergeIsSetMerge ==
    (HasMerged /\ \A i \in 1..Len(ExtendedFeed) : ExtendedFeed[i].date # NoDate) =>
        Merged = SetBasedMerge

\* C28: the failure of a refresh that a 4xx status other than 429 ends is
\* the client error with that status, not an unexpected error
C28_ClientErrorSurfaced ==
    \A f \in Feeds :
        (last_outcome[f].type = "response" /\ 400 <= last_outcome[f].status
            /\ last_outcome[f].status <= 499 /\ last_outcome[f].status # 429
            /\ result[f].kind = "failed") =>
        /\ result[f].err = UpdateFailed("Error fetching data", last_outcome[f].status)
        /\ result[f].err.msg # "Unexpected error"

\* C29: the failure of a refresh whose seventh attempt ends, like the six
\* before it, in a retryable outcome is the error of that attempt (its
\* status, the network error or the timeout), not an unexpected error
C29_LastRetryableErrorSurfaced ==
    \A f \in Feeds :
        (IsRetryableOutcome(last_outcome[f]) /\ attempt[f] = 6 /\ pc[f] = "idle") =>
        /\ result[f].kind = "failed"
        /\ result[f].err.msg # "Unexpected error"
        /\ result[f].err =
              (CASE last_outcome[f].type = "ClientError" ->
                       UpdateFailed("Error communicating with API", 0)
                 [] last_outcome[f].type = "TimeoutError" -> UpdateFailed("Request timeout", 0)
                 [] OTHER -> UpdateFailed("Error fetching data", last_outcome[f].status))

\* the attempt ended in an exception that is neither a network error nor a
\* timeout, raised by session.get or by response.json
IsOtherException(o) ==
    \/ o.type = "Exception"
    \/ o.type = "response" /\ o.status = 200 /\ o.json = "Exception"

\* C30: an exception that is neither a network error nor a timeout ends
\* the refresh on the attempt where it is raised, as an unexpected error,
\* with no sleep after it and no request after it, whatever the attempt
C30_OtherExceptionEndsRefresh ==
    \A f \in Feeds :
        IsOtherException(last_outcome[f]) =>
            /\ pc[f] = "idle"
            /\ result[f] = Failed(UpdateFailed("Unexpected error", 0))
            /\ Len(sleeps[f]) = attempt[f]
            /\ requests[f] = attempt[f] + 1

C30_Witness ==
    \E f \in Feeds :
        /\ last_outcome[f] = Raised("Exception") /\ attempt[f] = 3
        /\ requests[f] = 4 /\ Len(sleeps[f]) = 3
        /\ result[f].err.msg = "Unexpected error"

\* the refresh of feed f is awaiting a response or sleeping between retries
InFlight(f) == pc[f] \in {"awaiting", "sleeping"}
\* this step calls session.get for feed f
IssuesRequest(f) ==
    \/ pc[f] = "sleeping" /\ pc'[f] # "sleeping"
    \/ refreshes'[f] > refreshes[f] /\ params'[f] # NoParams

\* C31: an async_shutdown that comes while the refresh of the feed is
\* awaiting a response or sleeping leaves the session of the feed closed
\* and creates none, and a refresh whose session was closed under it calls
\* session.get no more
C31_TeardownInFlight ==
    [][\A f \in Feeds :
          /\ (shutdowns'[f] > shutdowns[f] /\ InFlight(f)) =>
                /\ session'[f] # NoSession /\ session'[f] \in closed'[f]
                /\ created'[f] = created[f]
          /\ (InFlight(f) /\ session[f] \in closed[f]) => ~IssuesRequest(f)]_vars

(***************************************************************************)
(* __init__.py: async_setup_entry with its three first refreshes, and      *)
(* async_unload_entry                                                      *)
(***************************************************************************)
\* entries the config flow creates: one chosen on the map, one from the
\* city list
MapEntry == EntryData("map", None, 496, 61, NoneStr, "en", "city_name")
CityEntry == EntryData("city", 490, None, None, NoneStr, "en", "city_name")
SetupEntries == {MapEntry, CityEntry}

\* what a request of a first refresh ends in
SetupOutcomes ==
    {Response(503, "none", NoData), Response(404, "none", NoData)}
    \cup {Response(200, "ok", p) : p \in Payloads}

\* the coordinator async_setup_entry builds for each feed: city_id=None,
\* latitude and longitude as entry.data.get gives them
CoordinatorConfig(e) ==
    [city_id |-> None, latitude |-> e.latitude, longitude |-> e.longitude,
     language |-> e.language]

\* the order of the first refreshes
NextFeed(f) == IF f = "current" THEN "hourly" ELSE IF f = "hourly" THEN "daily" ELSE "done"

InitSetup ==
    /\ entry \in SetupEntries
    /\ setup = "none"
    /\ location_data = NoEntry
    /\ step = "finished"
    /\ cfg = [f \in Feeds |-> CoordinatorConfig(NoEntry)]
    /\ session = [f \in Feeds |-> NoSession]
    /\ created = [f \in Feeds |-> 0]
    /\ closed = [f \in Feeds |-> {}]
    /\ closeCalls = [f \in Feeds |-> 0]
    /\ shutdowns = [f \in Feeds |-> 0]
    /\ pc = [f \in Feeds |-> "idle"]
    /\ attempt = [f \in Feeds |-> 0]
    /\ requests = [f \in Feeds |-> 0]
    /\ sleeps = [f \in Feeds |-> <<>>]
    /\ reqSessions = [f \in Feeds |-> {}]
    /\ last_error = [f \in Feeds |-> NoError]
    /\ last_outcome = [f \in Feeds |-> NoOutcome]
    /\ result = [f \in Feeds |-> NoResult]
    /\ data = [f \in Feeds |-> NoData]
    /\ refreshes = [f \in Feeds |-> 0]
    /\ params = [f \in Feeds |-> NoParams]
    /\ sent = [f \in Feeds |-> <<>>]
    /\ today = 1
    /\ forecast_result = NotCalled
    /\ forecast_log = <<>>
    /\ forecast_dates = {}
    /\ readout = NotRead
    /\ parsed = NotParsed

\* async_setup_entry up to its first await: the three coordinators
SetupEntry ==
    /\ setup = "none" /\ entry # NoEntry
    /\ cfg' = [f \in Feeds |-> CoordinatorConfig(entry)]
    /\ setup' = "current"
    /\ UNCHANGED <<session, created, closed, closeCalls, shutdowns, pc, attempt,
                   requests, sleeps, reqSessions, last_error, last_outcome, result,
                   data, refreshes, params, sent, entityVars, entry, location_data,
                   step>>

\* await coordinator.async_config_entry_first_refresh(): the refresh starts
FirstRefresh(f) == setup = f /\ refreshes[f] = 0 /\ BeginRefresh(f)
FirstRespond(f, o) == setup = f /\ Respond(f, o)
FirstWake(f) == setup = f /\ Wake(f)

\* the first refresh is over: the await returns, or raises
\* ConfigEntryNotReady out of async_setup_entry; after the third one the
\* coordinators are stored and the platforms set up
FirstRefreshOver(f) ==
    /\ setup = f /\ refreshes[f] = 1 /\ pc[f] = "idle"
    /\ setup' = IF result[f].kind = "ok" THEN NextFeed(f) ELSE "failed"
    /\ UNCHANGED <<engineVars, entityVars, entry, location_data, step>>

\* async_unload_entry: async_shutdown of the three coordinators
UnloadEntry ==
    /\ setup = "done"
    /\ setup' = "unloaded"
    /\ shutdowns' = [f \in Feeds |-> shutdowns[f] + 1]
    /\ closeCalls' = [f \in Feeds |-> IF session[f] # NoSession THEN closeCalls[f] + 1
                                      ELSE closeCalls[f]]
    /\ closed' = [f \in Feeds |-> IF session[f] # NoSession THEN closed[f] \cup {session[f]}
                                  ELSE closed[f]]
    /\ session' = [f \in Feeds |-> SessionAfterShutdown(session[f])]
    /\ UNCHANGED <<cfg, created, pc, attempt, requests, sleeps, reqSessions,
                   last_error, last_outcome, result, data, refreshes, params,
                   sent, entityVars, entry, location_data, step>>

NextSetup ==
    \/ SetupEntry
    \/ \E f \in Feeds :
          \/ FirstRefresh(f)
          \/ \E o \in SetupOutcomes : FirstRespond(f, o)
          \/ FirstWake(f)
          \/ FirstRefreshOver(f)
    \/ UnloadEntry

SpecSetup == InitSetup /\ [][NextSetup]_vars

\* the session of feed f is open
SessionOpen(f) == session[f] # NoSession /\ session[f] \notin closed[f]

\* C32: when a first refresh fails during async_setup_entry, no session
\* the feeds have created stays open
C32_NoSessionAfterFailedSetup ==
    setup = "failed" => \A f \in Feeds : ~SessionOpen(f)

\* C34: the feeds refresh independently: while one feed sleeps between
\* retries, and after it has failed, a feed that has not had its refresh
\* yet can start it, and a step of one feed leaves the payload, the session
\* and the refresh of the others as they are
C34_FeedsIndependent ==
    /\ [](\A f, g \in Feeds :
            (f # g /\ (pc[f] = "sleeping" \/ result[f].kind = "failed")
             /\ setup # "none" /\ refreshes[g] = 0) =>
                ENABLED FirstRefresh(g))
    /\ [][\A f, g \in Feeds :
            (f # g /\ (pc'[f] # pc[f] \/ attempt'[f] # attempt[f])) =>
                /\ data'[g] = data[g] /\ session'[g] = session[g]
                /\ pc'[g] = pc[g] /\ result'[g] = result[g]]_vars

(***************************************************************************)
(* config_flow.py: the steps that create the entry and those that change   *)
(* its location.  Coordinates are held in tenths of a degree.              *)
(***************************************************************************)
\* 49.4 <= latitude <= 50.2 and 5.7 <= longitude <= 6.5
InBox(lat, lon) == 494 <= lat /\ lat <= 502 /\ 57 <= lon /\ lon <= 65

\* the points the user can pick on the map and the geocoder can return
LatInputs == (494 - MaxOutside)..(502 + MaxOutside)
LonInputs == (57 - MaxOutside)..(65 + MaxOutside)
\* geocode_address: raises ValueError (found = FALSE) or returns a point
GeoResults ==
    {[found |-> FALSE, lat |-> None, lon |-> None]}
    \cup {[found |-> TRUE, lat |-> lat, lon |-> lon] : lat \in LatInputs, lon \in LonInputs}

\* fetch_cities: the dict of city names and ids, {} when the call fails
CityNames == {"Luxembourg", "Esch"}
CityChoices == CityNames \cup {"Nowhere"}
\* cities.get(selected_city)
CityIdOf(fetched, selected) ==
    IF ~fetched THEN None
    ELSE IF selected = "Luxembourg" THEN 490
    ELSE IF selected = "Esch" THEN 491
    ELSE None

\* what stays as it is in a step of the flow that creates the entry
FlowFrame == UNCHANGED <<engineVars, entityVars, entry, setup>>

\* async_step_city with user input
StepCity(fetched, selected, valid) ==
    /\ step = "user" /\ entry = NoEntry
    /\ IF fetched /\ CityIdOf(fetched, selected) # None /\ valid
       THEN /\ location_data' = EntryData("city", CityIdOf(fetched, selected), None, None,
                                          NoneStr, "en", "city_name")
            /\ step' = "language"
       ELSE UNCHANGED <<location_data, step>>
    /\ FlowFrame

\* async_step_address with user input: geo is what geocode_address gives,
\* valid whether validate_location returns
StepAddress(geo, valid) ==
    /\ step = "user" /\ entry = NoEntry
    /\ IF geo.found
       THEN /\ location_data' = EntryData("none", None, geo.lat, geo.lon, "address", "en",
                                          "display_name")
            /\ step' = IF valid THEN "address_confirm" ELSE step
       ELSE UNCHANGED <<location_data, step>>
    /\ FlowFrame

\* async_step_address_confirm with user input
StepAddressConfirm ==
    /\ step = "address_confirm"
    /\ location_data' = [location_data EXCEPT !.method = "address"]
    /\ step' = "language"
    /\ FlowFrame

\* async_step_map with user input
StepMap(lat, lon, valid) ==
    /\ step = "user" /\ entry = NoEntry
    /\ IF InBox(lat, lon) /\ valid
       THEN /\ location_data' = EntryData("map", None, lat, lon, NoneStr, "en", "city_name")
            /\ step' = "language"
       ELSE UNCHANGED <<location_data, step>>
    /\ FlowFrame

\* async_step_language with user input: async_create_entry
StepLanguage(lang) ==
    /\ step = "language"
    /\ entry' = [location_data EXCEPT !.language = lang]
    /\ location_data' = NoEntry
    /\ step' = "finished"
    /\ UNCHANGED <<engineVars, entityVars, setup>>

\* new_data of async_step_reconfigure_city
\* variant: the coordinates and the address are kept
ReconfiguredToCity_KeepCoords(e, city_id) ==
    [e EXCEPT !.method = "city", !.city_id = city_id]
ReconfiguredToCity(e, city_id) ==
    [e EXCEPT !.method = "city", !.city_id = city_id, !.latitude = None,
              !.longitude = None, !.address = NoneStr]
\* new_data of async_step_reconfigure_address
ReconfiguredToAddress(e, lat, lon) ==
    [e EXCEPT !.method = "address", !.address = "address", !.latitude = lat,
              !.longitude = lon, !.city_id = None]
\* new_data of async_step_reconfigure_map
ReconfiguredToMap(e, lat, lon) ==
    [e EXCEPT !.method = "map", !.latitude = lat, !.longitude = lon, !.city_id = None,
              !.address = NoneStr]

\* async_update_entry(entry, data=new_data) and async_reload: the entry is
\* unloaded and will be set up again with new coordinators
UpdateAndReload(new_data) ==
    /\ entry' = new_data
    /\ setup' = "none"
    /\ cfg' = [f \in Feeds |-> CoordinatorConfig(NoEntry)]
    /\ session' = [f \in Feeds |-> NoSession]
    /\ created' = [f \in Feeds |-> 0]
    /\ closed' = [f \in Feeds |-> {}]
    /\ closeCalls' = [f \in Feeds |-> 0]
    /\ shutdowns' = [f \in Feeds |-> 0]
    /\ pc' = [f \in Feeds |-> "idle"]
    /\ attempt' = [f \in Feeds |-> 0]
    /\ requests' = [f \in Feeds |-> 0]
    /\ sleeps' = [f \in Feeds |-> <<>>]
    /\ reqSessions' = [f \in Feeds |-> {}]
    /\ last_error' = [f \in Feeds |-> NoError]
    /\ last_outcome' = [f \in Feeds |-> NoOutcome]
    /\ result' = [f \in Feeds |-> NoResult]
    /\ data' = [f \in Feeds |-> NoData]
    /\ refreshes' = [f \in Feeds |-> 0]
    /\ params' = [f \in Feeds |-> NoParams]
    /\ sent' = [f \in Feeds |-> <<>>]
    /\ UNCHANGED <<entityVars, location_data, step>>

\* async_step_reconfigure_city with user input
ReconfigureCity(fetched, selected, valid) ==
    /\ entry # NoEntry
    /\ IF fetched /\ CityIdOf(fetched, selected) # None /\ valid
       THEN UpdateAndReload(ReconfiguredToCity(entry, CityIdOf(fetched, selected)))
       ELSE UNCHANGED vars

\* async_step_reconfigure_address with user input
ReconfigureAddress(geo, valid) ==
    /\ entry # NoEntry
    /\ IF geo.found /\ valid
       THEN UpdateAndReload(ReconfiguredToAddress(entry, geo.lat, geo.lon))
       ELSE UNCHANGED vars

\* async_step_reconfigure_map with user input
ReconfigureMap(lat, lon, valid) ==
    /\ entry # NoEntry
    /\ IF InBox(lat, lon) /\ valid
       THEN UpdateAndReload(ReconfiguredToMap(entry, lat, lon))
       ELSE UNCHANGED vars

InitFlow ==
    /\ entry = NoEntry
    /\ setup = "none"
    /\ location_data = NoEntry
    /\ step = "user"
    /\ cfg = [f \in Feeds |-> CoordinatorConfig(NoEntry)]
    /\ session = [f \in Feeds |-> NoSession]
    /\ created = [f \in Feeds |-> 0]
    /\ closed = [f \in Feeds |-> {}]
    /\ closeCalls = [f \in Feeds |-> 0]
    /\ shutdowns = [f \in Feeds |-> 0]
    /\ pc = [f \in Feeds |-> "idle"]
    /\ attempt = [f \in Feeds |-> 0]
    /\ requests = [f \in Feeds |-> 0]
    /\ sleeps = [f \in Feeds |-> <<>>]
    /\ reqSessions = [f \in Feeds |-> {}]
    /\ last_error = [f \in Feeds |-> NoError]
    /\ last_outcome = [f \in Feeds |-> NoOutcome]
    /\ result = [f \in Feeds |-> NoResult]
    /\ data = [f \in Feeds |-> NoData]
    /\ refreshes = [f \in Feeds |-> 0]
    /\ params = [f \in Feeds |-> NoParams]
    /\ sent = [f \in Feeds |-> <<>>]
    /\ today = 1
    /\ forecast_result = NotCalled
    /\ forecast_log = <<>>
    /\ forecast_dates = {}
    /\ readout = NotRead
    /\ parsed = NotParsed

\* the flow, the setup of the entry it makes, and the start of the first
\* refresh; what the API answers to that refresh is left to SpecSetup
NextFlow ==
    \/ \E fetched \in BOOLEAN, selected \in CityChoices, valid \in BOOLEAN :
          \/ StepCity(fetched, selected, valid)
          \/ ReconfigureCity(fetched, selected, valid)
    \/ \E geo \in GeoResults, valid \in BOOLEAN :
          \/ StepAddress(geo, valid)
          \/ ReconfigureAddress(geo, valid)
    \/ StepAddressConfirm
    \/ \E lat \in LatInputs, lon \in LonInputs, valid \in BOOLEAN :
          \/ StepMap(lat, lon, valid)
          \/ ReconfigureMap(lat, lon, valid)
    \/ \E lang \in Languages : StepLanguage(lang)
    \/ SetupEntry
    \/ FirstRefresh("current")
    \/ FirstRefreshOver("current")

SpecFlow == InitFlow /\ [][NextFlow]_vars

\* C33: every entry the flow creates or reconfigures gives each of the
\* three coordinators a location at setup, and no refresh fails with "No
\* location specified"
C33_EveryEntryHasSelector ==
    setup # "none" =>
        \A f \in Feeds :
            /\ BuildParams(cfg[f]) # NoParams
            /\ result[f].err.msg # "No location specified"

\* C37: the data of the entry hold one kind of location: a city id with no
\* latitude, longitude or address, or a latitude and a longitude with no
\* city id
C37_OneKindOfLocation ==
    entry # NoEntry =>
        \/ /\ entry.city_id # None
           /\ entry.latitude = None /\ entry.longitude = None /\ entry.address = NoneStr
        \/ /\ entry.latitude # None /\ entry.longitude # None
           /\ entry.city_id = None

\* an entry created from an address and then changed to a city
C37_Witness ==
    /\ entry.method = "city" /\ entry.label = "display_name"
    /\ entry.city_id = 491 /\ entry.latitude = None /\ entry.address = NoneStr

\* C38: the coordinates of the entry lie in the box 49.4..50.2 by 5.7..6.5,
\* whether picked on the map or geocoded from an address, at creation and
\* at reconfiguration
C38_CoordinatesInBox ==
    (entry.latitude # None /\ entry.longitude # None) =>
        InBox(entry.latitude, entry.longitude)

\* C35: an entry with a missing or unparseable field, a missing date
\* included, does not make the daily merge fail: the call returns a list,
\* the field is None in it, and the detailed entries that have a date are
\* in it
C35_MalformedEntryTolerated ==
    (forecast_result.called /\ Truthy(data["daily"])) =>
        /\ ~forecast_result.ret.none
        /\ \A i \in 1..DetailedProcessed :
              DetailedFeed[i].date # NoDate =>
                  \E j \in 1..Len(Merged) :
                      /\ Merged[j].datetime = DetailedFeed[i].date
                      /\ FromDetailed(Merged[j])
                      /\ (DetailedFeed[i].tmin = NoTemp => Merged[j].native_templow = None)
                      /\ (DetailedFeed[i].wgusts.k = "bad" =>
                            Merged[j].native_wind_gust_speed = None)
                      /\ (DetailedFeed[i].uv = None => Merged[j].uv_index = None)

\* the entries at the head of the merged list: the one built from the
\* current weather, if there is one, and the detailed ones
HeadEntries == (IF StartsWithToday THEN 1 ELSE 0) + DetailedProcessed
\* the entry has one of the keys condition, humidity, pressure, cloud cover
HasCurrentConditions(fc) ==
    \/ fc.condition # AbsentStr \/ fc.humidity # Absent
    \/ fc.native_pressure # Absent \/ fc.cloud_coverage # Absent

\* C36: in the merged list only an entry for today that was built from or
\* filled in with the current weather has condition, humidity, pressure or
\* cloud cover, and the entries that come from the extended feed have no
\* wind speed, wind bearing or UV index
C36_FieldsBySource ==
    HasMerged =>
        /\ \A j \in 1..Len(Merged) :
              HasCurrentConditions(Merged[j]) =>
                  /\ Merged[j].datetime = today
                  /\ HasCurrent(data["current"])
                  /\ j <= HeadEntries
        /\ \A j \in (HeadEntries + 1)..Len(Merged) :
              /\ Merged[j].native_wind_speed = Absent
              /\ Merged[j].wind_bearing = AbsentStr
              /\ Merged[j].uv_index = Absent
              /\ \E i \in 1..Len(ExtendedFeed) : Merged[j] = ExtendedForecast(ExtendedFeed[i])

C36_Witness ==
    /\ HasMerged /\ Len(Merged) >= 3 /\ Len(DetailedFeed) = 2
    /\ Merged[1].datetime = today /\ Merged[1].condition = "partlycloudy"
    /\ ~HasCurrentConditions(Merged[2]) /\ Merged[2].uv_index # Absent
    /\ Merged[3].native_wind_speed = Absent

\* C39: the daily merge, the hourly forecast and the reading of the
\* properties of the weather entity and of the sensors leave the payload
\* of every feed as it was
C39_ReadingLeavesPayloads == [][\A f \in Feeds : data'[f] = data[f]]_vars

C39_Witness ==
    /\ HasMerged /\ Len(DetailedFeed) > DetailedLimit /\ Len(Merged) = DetailedLimit
    /\ readout.weather.called /\ readout.hourly.called /\ readout.sensors.called
    /\ Truthy(data["hourly"]) /\ Truthy(data["current"])

TypeOK ==
    /\ \A f \in Feeds : pc[f] \in {"idle", "awaiting", "sleeping"}
    /\ \A f \in Feeds : attempt[f] \in 0..(MaxAttempts - 1)

====
